---- MODULE Spec2Model ----
(***************************************************************************)
(* Model of the route-graph core of the travel-advisory app:               *)
(*   reorderNodes            (SmartRoute, Kahn's algorithm with restart)   *)
(*   parseDurationToMinutes  (free-text duration -> minutes)               *)
(*   formatTime              (minutes from midnight -> "HH:MM")            *)
(*   nodeTimeline            (arrival / departure per ordered node)        *)
(*                                                                         *)
(* Strings are sequences of one-character strings.  The two-character      *)
(* hour marker and the one-character minute marker of the regular          *)
(* expressions are the characters "xiao","shi" and "fen"; "zhong" is the   *)
(* character that follows "fen" in the default stay text, "x" is any       *)
(* other character.  JavaScript numbers are kept in fixed point, in units  *)
(* of 1/Scale minute, so that fractional hours stay exact.                 *)
(***************************************************************************)
EXTENDS Integers, Sequences, FiniteSets, TLC

VARIABLES
  nodes,          \* routePlan.nodes : sequence of [id, estimatedStay]
  edges,          \* routePlan.edges : sequence of [from, to, duration]
  pc,             \* position in the computation
  inDegree,       \* Map<number, number>  (function on its key set)
  adjacency,      \* Map<number, number[]>
  sortedNodes,    \* output list of reorderNodes
  visited,        \* Set<number>
  queue,          \* number[]
  restarted,      \* history: ids pushed by the restart branch (line 38)
  iterations,     \* history: evaluations of the loop condition (line 34)
  i,              \* index of the forEach of nodeTimeline
  currentMinutes, \* running clock of nodeTimeline (fixed point)
  timeline,       \* Map<number, {arrival, departure}> plus the clock values
  arg,            \* argument of the pure-function call under check
  ret,            \* its result
  stats,          \* routeStats : null or {start, end, duration, count}
  filteredZones,  \* SafetyMap: the zones of the active city that match the search
  processingZones,\* the worklist of the clustering
  mapItems,       \* the items built by the clustering
  markers,        \* what is drawn for each item
  submissions,    \* zoneService: the submissions kept in localStorage
  clock,          \* Date.now()
  lastCall,       \* history: the zoneService operation called last
  returned,       \* the value returned by the last zoneService call (<<>> for void)
  apiKey,         \* geminiService: process.env.API_KEY
  call,           \* the service function called and what the model API does
  thrown,         \* the error caught by the function, if any
  outcome,        \* how the promise of the call settles
  guide,          \* NationalGuide: selectedProvince, result, loading
  scanner,        \* MenuScanner: imagePreview, loading, analysis
  photo,          \* PhotoMagic: state
  requests,       \* the service calls of the components that have not settled
  events          \* history: the number of things the user has done

\* the variables of the other parts of the app
clusterVars == <<filteredZones, processingZones, mapItems, markers>>

zoneVars == <<submissions, clock, lastCall, returned>>

aiVars == <<apiKey, call, thrown, outcome>>

uiVars == <<guide, scanner, photo, requests, events>>

extVars == <<clusterVars, zoneVars, aiVars, uiVars>>

vars == <<nodes, edges, pc, inDegree, adjacency, sortedNodes, visited, queue,
          restarted, iterations, i, currentMinutes, timeline, arg, ret, stats, extVars>>

routeVars == <<nodes, edges, inDegree, adjacency, sortedNodes, visited, queue,
               restarted, iterations, i, currentMinutes, timeline, arg, ret, stats>>

orderVars == <<inDegree, adjacency, sortedNodes, visited, queue, restarted, iterations>>

timelineVars == <<i, currentMinutes, timeline>>

----------------------------------------------------------------------------
(* Bounds of the model *)

MaxId == 3
MaxEdges == 3
MaxStops == 2
MaxLegs == 2
MaxLen == 5
MaxMinutes == 3000

(* Fixed-point unit: a number n of the program is the integer n * Scale *)
Scale == 1000

----------------------------------------------------------------------------
(* Generic helpers *)

Range(s) == {s[k] : k \in DOMAIN s}

SeqsUpTo(S, n) == UNION {[1..k -> S] : k \in 0..n}

\* Map.get(k) || 0
GetOr0(m, k) == IF k \in DOMAIN m THEN m[k] ELSE 0

\* Map.get(k) || []
GetOrEmpty(m, k) == IF k \in DOMAIN m THEN m[k] ELSE <<>>

\* Map.set(k, v)
MapSet(m, k, v) == [x \in (DOMAIN m) \cup {k} |-> IF x = k THEN v ELSE m[x]]

EmptyMap == [x \in {} |-> 0]

Ids(ns) == {ns[k].id : k \in DOMAIN ns}

\* Array.prototype.find: index of the first element satisfying the test (0: none)
FirstIndex(s, Test(_)) ==
  LET hits == {k \in DOMAIN s : Test(s[k])}
  IN  IF hits = {} THEN 0 ELSE CHOOSE k \in hits : \A j \in hits : k <= j

----------------------------------------------------------------------------
(* reorderNodes, lines 7-62 *)

\* lines 13-20: in-degrees set to 0 for every node, then one pass over the edges
RECURSIVE BuildInDegree(_, _)
BuildInDegree(deg, es) ==
  IF es = <<>> THEN deg
  ELSE BuildInDegree(MapSet(deg, Head(es).to, GetOr0(deg, Head(es).to) + 1), Tail(es))

RECURSIVE BuildAdjacency(_, _)
BuildAdjacency(adj, es) ==
  IF es = <<>> THEN adj
  ELSE BuildAdjacency(
         MapSet(adj, Head(es).from, Append(GetOrEmpty(adj, Head(es).from), Head(es).to)),
         Tail(es))

\* lines 27-31: the roots, in input order
Roots(ns, deg) ==
  LET RECURSIVE Collect(_)
      Collect(k) ==
        IF k > Len(ns) THEN <<>>
        ELSE IF GetOr0(deg, ns[k].id) = 0 THEN <<ns[k].id>> \o Collect(k + 1)
        ELSE Collect(k + 1)
  IN  Collect(1)

\* lines 8-31: the state on entry of the while loop
InitialOrderState(ns, es) ==
  LET deg == BuildInDegree([id \in Ids(ns) |-> 0], es)
  IN  [inDegree    |-> deg,
       adjacency   |-> BuildAdjacency(EmptyMap, es),
       sortedNodes |-> <<>>,
       visited     |-> {},
       queue       |-> Roots(ns, deg),
       restarted   |-> <<>>,
       iterations  |-> 0,
       running     |-> TRUE]

\* variant of FirstUnvisited: the last unvisited node instead of the first
FirstUnvisitedLast(ns, vis) ==
  LET hits == {k \in DOMAIN ns : ns[k].id \notin vis}
  IN  IF hits = {} THEN 0 ELSE CHOOSE k \in hits : \A j \in hits : k >= j

\* line 36: originalNodes.find(n => !visited.has(n.id)), as an index (0: none)
FirstUnvisited(ns, vis) ==
  LET Unvisited(n) == n.id \notin vis
  IN  FirstIndex(ns, Unvisited)

\* variant of RelaxNeighbors: every neighbor is enqueued, whatever its in-degree
RECURSIVE RelaxNeighborsAlways(_, _, _)
RelaxNeighborsAlways(deg, q, nbrs) ==
  IF nbrs = <<>> THEN [inDegree |-> deg, queue |-> q]
  ELSE LET d == GetOr0(deg, Head(nbrs)) - 1
       IN  RelaxNeighborsAlways(MapSet(deg, Head(nbrs), d), Append(q, Head(nbrs)), Tail(nbrs))

\* lines 52-58: neighbors.forEach
RECURSIVE RelaxNeighbors(_, _, _)
RelaxNeighbors(deg, q, nbrs) ==
  IF nbrs = <<>> THEN [inDegree |-> deg, queue |-> q]
  ELSE LET d == GetOr0(deg, Head(nbrs)) - 1
       IN  RelaxNeighbors(MapSet(deg, Head(nbrs), d),
                          IF d = 0 THEN Append(q, Head(nbrs)) ELSE q,
                          Tail(nbrs))

\* variant of Dequeue: without the test of line 45
DequeueNoSkip(ns, st) ==
  LET currentId == Head(st.queue)
      rest      == Tail(st.queue)
      k         == FirstIndex(ns, LAMBDA n : n.id = currentId)
      relaxed   == RelaxNeighbors(st.inDegree, rest, GetOrEmpty(st.adjacency, currentId))
  IN  [st EXCEPT !.visited     = @ \cup {currentId},
                 !.sortedNodes = IF k # 0 THEN Append(@, ns[k]) ELSE @,
                 !.inDegree    = relaxed.inDegree,
                 !.queue       = relaxed.queue]

\* variant of Dequeue: a visited id is left in the queue
DequeuePeek(ns, st) ==
  LET currentId == Head(st.queue)
      rest      == Tail(st.queue)
      k         == FirstIndex(ns, LAMBDA n : n.id = currentId)
      relaxed   == RelaxNeighbors(st.inDegree, rest, GetOrEmpty(st.adjacency, currentId))
  IN  IF currentId \in st.visited
      THEN st
      ELSE [st EXCEPT !.visited     = @ \cup {currentId},
                      !.sortedNodes = IF k # 0 THEN Append(@, ns[k]) ELSE @,
                      !.inDegree    = relaxed.inDegree,
                      !.queue       = relaxed.queue]

\* lines 44-58: from queue.shift() to the end of the loop body
Dequeue(ns, st) ==
  LET currentId == Head(st.queue)
      rest      == Tail(st.queue)
      k         == FirstIndex(ns, LAMBDA n : n.id = currentId)
      relaxed   == RelaxNeighbors(st.inDegree, rest, GetOrEmpty(st.adjacency, currentId))
  IN  IF currentId \in st.visited
      THEN [st EXCEPT !.queue = rest]
      ELSE [st EXCEPT !.visited     = @ \cup {currentId},
                      !.sortedNodes = IF k # 0 THEN Append(@, ns[k]) ELSE @,
                      !.inDegree    = relaxed.inDegree,
                      !.queue       = relaxed.queue]

\* lines 34-59: one evaluation of the loop condition and, if it holds, of the body
Iteration(ns, st0) ==
  LET st == [st0 EXCEPT !.iterations = @ + 1]
  IN  IF ~(Len(st.sortedNodes) < Len(ns)) THEN [st EXCEPT !.running = FALSE]
      ELSE IF st.queue = <<>>
           THEN LET u == FirstUnvisited(ns, st.visited)
                IN  IF u # 0
                    THEN Dequeue(ns, [st EXCEPT !.queue = <<ns[u].id>>,
                                                !.restarted = Append(@, ns[u].id)])
                    ELSE [st EXCEPT !.running = FALSE]
           ELSE Dequeue(ns, st)

RECURSIVE RunLoop(_, _)
RunLoop(ns, st) == IF st.running THEN RunLoop(ns, Iteration(ns, st)) ELSE st

reorderNodes(originalNodes, es) == RunLoop(originalNodes, InitialOrderState(originalNodes, es)).sortedNodes

----------------------------------------------------------------------------
(* Characters and numbers *)

DigitChars == <<"0", "1", "2", "3", "4", "5", "6", "7", "8", "9">>

Digits == Range(DigitChars)

DigitValue(c) == (CHOOSE k \in DOMAIN DigitChars : DigitChars[k] = c) - 1

AllDigits(str, a, b) == \A k \in a..b : str[k] \in Digits

\* parseInt of a text of digits
RECURSIVE parseInt(_)
parseInt(ds) ==
  IF ds = <<>> THEN 0
  ELSE parseInt(SubSeq(ds, 1, Len(ds) - 1)) * 10 + DigitValue(ds[Len(ds)])

RECURSIVE Pow10(_)
Pow10(k) == IF k = 0 THEN 1 ELSE 10 * Pow10(k - 1)

\* parseFloat of a text  digits [ "." digits ], in fixed point
parseFloat(txt) ==
  LET dots == {k \in DOMAIN txt : txt[k] = "."}
  IN  IF dots = {} THEN parseInt(txt) * Scale
      ELSE LET d    == CHOOSE k \in dots : TRUE
               frac == SubSeq(txt, d + 1, Len(txt))
           IN  parseInt(SubSeq(txt, 1, d - 1)) * Scale
                 + (parseInt(frac) * Scale) \div Pow10(Len(frac))

\* Number.prototype.toString of a non-negative integer
RECURSIVE toString(_)
toString(n) ==
  IF n < 10 THEN <<DigitChars[n + 1]>>
  ELSE Append(toString(n \div 10), DigitChars[(n % 10) + 1])

\* String.prototype.padStart(2, '0')
padStart2(txt) == IF Len(txt) >= 2 THEN txt ELSE [k \in 1..(2 - Len(txt)) |-> "0"] \o txt

HourMarker == <<"xiao", "shi">>
MinMarker == <<"fen">>

\* the text has the marker at position p
MarkerAt(str, p, marker) ==
  /\ p >= 1
  /\ p + Len(marker) - 1 <= Len(str)
  /\ \A k \in DOMAIN marker : str[p + k - 1] = marker[k]

\* \d+ is greedy: the last position of the run of digits that starts at pos (pos-1: no digit)
DigitRunEnd(str, pos) ==
  LET ends == {j \in pos..Len(str) : AllDigits(str, pos, j)}
  IN  IF ends = {} THEN pos - 1 ELSE CHOOSE j \in ends : \A k \in ends : k <= j

\* variant of HourMatchAt: without the optional fraction
HourMatchAtNoFraction(str, pos) ==
  LET j == DigitRunEnd(str, pos)
  IN  IF j < pos THEN 0
      ELSE IF MarkerAt(str, j + 1, HourMarker) THEN j
      ELSE 0

\* /(\d+(\.\d+)?)<hour marker>/ tried at start position pos: last position of group 1, or 0
HourMatchAt(str, pos) ==
  LET j == DigitRunEnd(str, pos)
      k == DigitRunEnd(str, j + 2)
  IN  IF j < pos THEN 0
      ELSE IF j + 1 <= Len(str) /\ str[j + 1] = "." /\ k >= j + 2
                /\ MarkerAt(str, k + 1, HourMarker) THEN k
      ELSE IF MarkerAt(str, j + 1, HourMarker) THEN j
      ELSE 0

\* /(\d+)<minute marker>/ tried at start position pos: last position of group 1, or 0
MinMatchAt(str, pos) ==
  LET j == DigitRunEnd(str, pos)
  IN  IF j >= pos /\ MarkerAt(str, j + 1, MinMarker) THEN j ELSE 0

\* String.prototype.match: group 1 of the leftmost match, <<>> for null
LeftmostGroup(str, MatchAt(_, _)) ==
  LET starts == {pos \in DOMAIN str : MatchAt(str, pos) # 0}
  IN  IF starts = {} THEN <<>>
      ELSE LET pos == CHOOSE a \in starts : \A c \in starts : a <= c
           IN  SubSeq(str, pos, MatchAt(str, pos))

Undefined == <<"undefined">>

\* lines 65-79
parseDurationToMinutes(str) ==
  IF str = Undefined \/ str = <<>> THEN 0
  ELSE LET hourMatch == LeftmostGroup(str, HourMatchAt)
           minMatch  == LeftmostGroup(str, MinMatchAt)
           minutes   == (IF hourMatch # <<>> THEN parseFloat(hourMatch) * 60 ELSE 0)
                        + (IF minMatch # <<>> THEN parseInt(minMatch) * Scale ELSE 0)
       IN  IF minutes = 0 /\ AllDigits(str, 1, Len(str)) THEN parseInt(str) * Scale
           ELSE minutes

\* variant of formatTime: without % 24
formatTimeNoWrap(minutesFromMidnight) ==
  LET h == minutesFromMidnight \div (60 * Scale)
      m == (minutesFromMidnight % (60 * Scale)) \div Scale
  IN  padStart2(toString(h)) \o <<":">> \o padStart2(toString(m))

\* lines 81-85
formatTime(minutesFromMidnight) ==
  LET h == (minutesFromMidnight \div (60 * Scale)) % 24
      m == (minutesFromMidnight % (60 * Scale)) \div Scale
  IN  padStart2(toString(h)) \o <<":">> \o padStart2(toString(m))

\* line 124: the default stay text
DefaultStay == <<"3", "0", "fen", "zhong">>

----------------------------------------------------------------------------
(* Inputs *)

(* The code compares ids only for equality (Map and Set keys, === in find), so  *)
(* a node list with unique ids is taken up to renaming of the ids: the k-th    *)
(* node of the input has id k.  With up to n nodes out of the ids 1..n, the    *)
(* ids above the length of the list are the ids absent from the node list.     *)
NodeLists(n, stays) ==
  UNION { { [k \in 1..m |-> [id |-> k, estimatedStay |-> f[k]]] : f \in [1..m -> stays] }
          : m \in 0..n }

(* The code reads the edge list in three places: the in-degree count (line 19), *)
(* the per-`from` adjacency lists (lines 17-18) and find by (from, to) (line    *)
(* 116).  None depends on the relative order of two edges with different        *)
(* `from`, so an edge list is taken up to that order: grouped by `from`, with   *)
(* every order inside a group.                                                  *)
GroupedByFrom(es) == \A k \in 1..(Len(es) - 1) : es[k].from <= es[k + 1].from

EdgeLists(idSet, durations, n) ==
  {es \in SeqsUpTo([from : idSet, to : idSet, duration : durations], n) : GroupedByFrom(es)}

----------------------------------------------------------------------------
(* nodeTimeline, lines 104-132, for one route plan *)

Null == [absent |-> "null"]

\* routeStats has not run
NotComputed == [absent |-> "not computed"]

\* geminiService: no call is under way
NoCall == [function |-> "none"]

NoError == [message |-> <<"no error">>]

Unsettled == [state |-> "pending"]

\* the other parts of the app are not in use
ClusterIdle ==
  /\ filteredZones = <<>> /\ processingZones = <<>> /\ mapItems = <<>> /\ markers = <<>>

ZoneIdle ==
  /\ submissions = <<>> /\ clock = 0 /\ lastCall = "none" /\ returned = <<>>

AiIdle ==
  /\ apiKey = "" /\ call = NoCall /\ thrown = NoError /\ outcome = Unsettled

\* lines 490-492, 643-645 and 307-313: the initial state of the components
UiIdle ==
  /\ guide = [selectedProvince |-> Null, result |-> Null, loading |-> FALSE]
  /\ scanner = [imagePreview |-> Null, loading |-> FALSE, analysis |-> Null]
  /\ photo = [originalUrl |-> Null, generatedUrl |-> Null, prompt |-> <<>>,
              isProcessing |-> FALSE, error |-> Null]
  /\ requests = {}
  /\ events = 0

ExtIdle == ClusterIdle /\ ZoneIdle /\ AiIdle /\ UiIdle

\* SmartRoute has computed nothing
RouteIdle ==
  /\ inDegree = EmptyMap /\ adjacency = EmptyMap /\ sortedNodes = <<>>
  /\ visited = {} /\ queue = <<>> /\ restarted = <<>> /\ iterations = 0
  /\ i = 0 /\ currentMinutes = 0 /\ timeline = EmptyMap
  /\ ret = <<>>
  /\ stats = NotComputed

Idle == RouteIdle /\ ExtIdle

Init ==
  /\ nodes \in NodeLists(MaxId, {Undefined})
  /\ edges \in EdgeLists(1..MaxId, {<<"2", "0", "fen">>}, MaxEdges)
  /\ pc = "start"
  /\ arg = <<>>
  /\ Idle

OrderState == [inDegree |-> inDegree, adjacency |-> adjacency, sortedNodes |-> sortedNodes,
               visited |-> visited, queue |-> queue, restarted |-> restarted,
               iterations |-> iterations,
               running |-> pc = "loop"]

SetOrderState(st) ==
  /\ inDegree' = st.inDegree
  /\ adjacency' = st.adjacency
  /\ sortedNodes' = st.sortedNodes
  /\ visited' = st.visited
  /\ queue' = st.queue
  /\ restarted' = st.restarted
  /\ iterations' = st.iterations

\* lines 107-108
StartTimeline ==
  /\ pc = "start"
  /\ currentMinutes' = 9 * 60 * Scale
  /\ timeline' = EmptyMap
  /\ pc' = "build"
  /\ UNCHANGED <<nodes, edges, orderVars, i, arg, ret, stats, extVars>>

\* line 110, reorderNodes lines 8-31
BuildGraph ==
  /\ pc = "build"
  /\ SetOrderState(InitialOrderState(nodes, edges))
  /\ pc' = "loop"
  /\ UNCHANGED <<nodes, edges, timelineVars, arg, ret, stats, extVars>>

\* reorderNodes lines 34-59, one iteration; the loop is left when the condition
\* fails or at break, and forEach starts
WhileIteration ==
  /\ pc = "loop"
  /\ LET st == Iteration(nodes, OrderState)
     IN  /\ SetOrderState(st)
         /\ pc' = IF st.running THEN "loop" ELSE "forEach"
  /\ i' = 0
  /\ UNCHANGED <<nodes, edges, currentMinutes, timeline, arg, ret, stats, extVars>>

\* line 116: routePlan.edges.find(e => e.from === prevNode.id && e.to === node.id)
FindEdge(es, prevId, id) == FirstIndex(es, LAMBDA e : e.from = prevId /\ e.to = id)

\* variant of TravelTime: the default gap also before the first node
TravelTimeAlways(sorted, es, k) ==
  IF k > 0
  THEN LET e == FindEdge(es, sorted[k].id, sorted[k + 1].id)
       IN  IF e # 0 THEN parseDurationToMinutes(es[e].duration) ELSE 15 * Scale
  ELSE 15 * Scale

\* variant of TravelTime: the edge is looked up from the current node to the previous
TravelTimeReversed(sorted, es, k) ==
  IF k > 0
  THEN LET e == FindEdge(es, sorted[k + 1].id, sorted[k].id)
       IN  IF e # 0 THEN parseDurationToMinutes(es[e].duration) ELSE 15 * Scale
  ELSE 0

\* lines 113-119
TravelTime(sorted, es, k) ==
  IF k > 0
  THEN LET e == FindEdge(es, sorted[k].id, sorted[k + 1].id)
       IN  IF e # 0 THEN parseDurationToMinutes(es[e].duration) ELSE 15 * Scale
  ELSE 0

\* line 124: node.estimatedStay || <default stay text>
StayText(node) ==
  IF node.estimatedStay = Undefined \/ node.estimatedStay = <<>> THEN DefaultStay
  ELSE node.estimatedStay

\* lines 112-129: the callback of sortedNodes.forEach for index i (0-based)
ForEachNode ==
  /\ pc = "forEach"
  /\ i < Len(sortedNodes)
  /\ LET node      == sortedNodes[i + 1]
         arrival   == currentMinutes + TravelTime(sortedNodes, edges, i)
         departure == arrival + parseDurationToMinutes(StayText(node))
     IN  /\ currentMinutes' = departure
         /\ timeline' = MapSet(timeline, node.id,
                               [arrival      |-> formatTime(arrival),
                                departure    |-> formatTime(departure),
                                arrivalMin   |-> arrival,
                                departureMin |-> departure])
  /\ i' = i + 1
  /\ UNCHANGED <<nodes, edges, pc, orderVars, arg, ret, stats, extVars>>

\* line 131
ReturnTimeline ==
  /\ pc = "forEach"
  /\ i = Len(sortedNodes)
  /\ pc' = "done"
  /\ UNCHANGED <<nodes, edges, orderVars, timelineVars, arg, ret, stats, extVars>>

----------------------------------------------------------------------------
(* routeStats, lines 135-163 *)

\* the remainder operator % of the program: the sign of the dividend
JsRem(a, b) == IF a >= 0 THEN a % b ELSE -((-a) % b)

\* template-literal conversion of an integer
NumberToString(n) == IF n < 0 THEN <<"-">> \o toString(-n) ELSE toString(n)

\* lines 147-150: timeStr.split(':').map(Number), then h * 60 + m
getMinutes(timeStr) ==
  LET colon == FirstIndex(timeStr, LAMBDA c : c = ":")
      h     == parseInt(SubSeq(timeStr, 1, colon - 1))
      m     == parseInt(SubSeq(timeStr, colon + 1, Len(timeStr)))
  IN  h * 60 + m

\* lines 153-154 and 159: Math.floor(durationMins / 60), durationMins % 60 and
\* the duration text
DurationText(durationMins) ==
  LET h == durationMins \div 60
      m == JsRem(durationMins, 60)
  IN  NumberToString(h) \o HourMarker
        \o (IF m > 0 THEN NumberToString(m) \o MinMarker ELSE <<>>)

\* lines 135-163
routeStats(ns, es, tl) ==
  IF DOMAIN tl = {} THEN Null
  ELSE LET sorted == reorderNodes(ns, es)
       IN  IF Len(sorted) = 0 THEN Null
           ELSE LET firstNode == sorted[1]
                    lastNode  == sorted[Len(sorted)]
                    start == IF firstNode.id \in DOMAIN tl /\ tl[firstNode.id].arrival # <<>>
                             THEN tl[firstNode.id].arrival
                             ELSE <<"0", "9", ":", "0", "0">>
                    end   == IF lastNode.id \in DOMAIN tl /\ tl[lastNode.id].departure # <<>>
                             THEN tl[lastNode.id].departure
                             ELSE <<"1", "8", ":", "0", "0">>
                    durationMins == getMinutes(end) - getMinutes(start)
                IN  [start    |-> start,
                     end      |-> end,
                     duration |-> DurationText(durationMins),
                     count    |-> Len(ns)]

\* the memo of routeStats is computed once nodeTimeline is there
ComputeRouteStats ==
  /\ pc = "done"
  /\ stats = NotComputed
  /\ stats' = routeStats(nodes, edges, timeline)
  /\ UNCHANGED <<nodes, edges, pc, orderVars, timelineVars, arg, ret, extVars>>

Next ==
  \/ StartTimeline \/ BuildGraph \/ WhileIteration \/ ForEachNode \/ ReturnTimeline
  \/ ComputeRouteStats

Spec == Init /\ [][Next]_vars

----------------------------------------------------------------------------
(* The same computation on route plans with varied stay and duration texts *)

\* absent, 16 hours (the clock passes midnight), a text without number or marker
StaySamples ==
  { Undefined,
    <<"1", "6", "xiao", "shi">>,
    <<"x", "x">> }

\* 1 hour 30 minutes, a text without number or marker
DurationSamples ==
  { <<"1", "xiao", "shi", "3", "0", "fen">>,
    <<"x">> }

InitTimeline ==
  /\ nodes \in NodeLists(MaxStops, StaySamples)
  /\ edges \in EdgeLists(1..MaxStops, DurationSamples, MaxLegs)
  /\ pc = "start"
  /\ arg = <<>>
  /\ Idle

TimelineSpec == InitTimeline /\ [][Next]_vars

----------------------------------------------------------------------------
(* parseDurationToMinutes and formatTime called on their own *)

Chars == {"0", "1", "4", "5", ".", "xiao", "shi", "fen", "x"}

Texts == SeqsUpTo(Chars, MaxLen) \cup {Undefined}

InitPure ==
  /\ nodes = <<>> /\ edges = <<>>
  /\ Idle
  /\ \/ pc = "parse" /\ arg \in Texts
     \/ pc = "format" /\ arg \in 0..MaxMinutes

CallParse ==
  /\ pc = "parse"
  /\ ret' = parseDurationToMinutes(arg)
  /\ pc' = "parsed"
  /\ UNCHANGED <<nodes, edges, orderVars, timelineVars, arg, stats, extVars>>

CallFormat ==
  /\ pc = "format"
  /\ ret' = formatTime(arg * Scale)
  /\ pc' = "formatted"
  /\ UNCHANGED <<nodes, edges, orderVars, timelineVars, arg, stats, extVars>>

NextPure == CallParse \/ CallFormat

PureSpec == InitPure /\ [][NextPure]_vars

----------------------------------------------------------------------------
(* Properties of reorderNodes *)

\* the while loop of reorderNodes has been left
LoopLeft == pc \in {"forEach", "done"}

Occurrences(seq, x) == Cardinality({k \in DOMAIN seq : seq[k] = x})

HasEdge(a, b) == \E k \in DOMAIN edges : edges[k].from = a /\ edges[k].to = b

\* the ids reachable from the ids of S by at most n edges
RECURSIVE ReachWithin(_, _)
ReachWithin(S, n) ==
  IF n = 0 THEN S
  ELSE ReachWithin(S \cup {edges[k].to : k \in {j \in DOMAIN edges : edges[j].from \in S}}, n - 1)

Successors(a) == {edges[k].to : k \in {j \in DOMAIN edges : edges[j].from = a}}

Acyclic == \A a \in Ids(nodes) : a \notin ReachWithin(Successors(a), Len(edges))

EdgesWithinNodes == \A k \in DOMAIN edges : edges[k].from \in Ids(nodes) /\ edges[k].to \in Ids(nodes)

Sources == {a \in Ids(nodes) : \A k \in DOMAIN edges : edges[k].to # a}

SingleDagOneSource == EdgesWithinNodes /\ Acyclic /\ Cardinality(Sources) = 1

\* C1: reorderNodes returns every input node exactly once: the result has the
\* length of the input and each input node occurs in it exactly one time.
C1_Permutation ==
  LoopLeft =>
    /\ Len(sortedNodes) = Len(nodes)
    /\ \A k \in DOMAIN nodes : Occurrences(sortedNodes, nodes[k]) = 1

\* a run on three nodes with a self-loop in which the restart branch was taken
\* and the input order was changed
C1_Witness ==
  /\ LoopLeft
  /\ Len(nodes) = 3
  /\ restarted # <<>>
  /\ sortedNodes # nodes
  /\ \E k \in DOMAIN edges : edges[k].from = edges[k].to

\* C2: when the edges form one DAG with one source, every edge from->to has
\* `from` at an earlier position of the result than `to`.
C2_RespectsEdges ==
  (LoopLeft /\ SingleDagOneSource) =>
    \A k \in DOMAIN edges :
      \E a, b \in DOMAIN sortedNodes :
        /\ a < b
        /\ sortedNodes[a].id = edges[k].from
        /\ sortedNodes[b].id = edges[k].to

\* a DAG in which a node has two predecessors, and the input is not yet in order
C2_Witness ==
  /\ LoopLeft
  /\ SingleDagOneSource
  /\ Len(nodes) = 3
  /\ Cardinality({<<edges[k].from, edges[k].to>> : k \in DOMAIN edges}) = 3
  /\ sortedNodes # nodes

\* C3: reorderNodes terminates on every input: the loop condition is evaluated
\* at most (number of nodes + number of edges + 1) times, so the while loop is
\* left after finitely many iterations, and then the result is complete.
C3_Terminates ==
  /\ iterations <= Len(nodes) + Len(edges) + 1
  /\ LoopLeft => Len(sortedNodes) = Len(nodes)

\* a completed run on nodes {1,2,3} with the cycle 1->2, 2->1 and node 3 without edges
C3_Witness ==
  /\ LoopLeft
  /\ Ids(nodes) = {1, 2, 3}
  /\ HasEdge(1, 2) /\ HasEdge(2, 1)
  /\ \A k \in DOMAIN edges : edges[k].from # 3 /\ edges[k].to # 3
  /\ restarted # <<>>

\* C4: ordering the result again, with the same edges, returns it unchanged.
C4_Idempotent == LoopLeft => reorderNodes(sortedNodes, edges) = sortedNodes

\* a run that needed the restart branch and changed the input order
C4_Witness ==
  /\ LoopLeft
  /\ Len(restarted) >= 2
  /\ sortedNodes # nodes

PresentEdges(ns, es) == SelectSeq(es, LAMBDA e : e.from \in Ids(ns) /\ e.to \in Ids(ns))

\* C5: edges with an endpoint absent from the node list are skipped: the order
\* is the order obtained after removing those edges.
C5_AbsentEdgesSkipped == LoopLeft => sortedNodes = reorderNodes(nodes, PresentEdges(nodes, edges))

----------------------------------------------------------------------------
(* Properties of nodeTimeline *)

Text0900 == <<"0", "9", ":", "0", "0">>
Text0930 == <<"0", "9", ":", "3", "0">>

\* C6: no travel time is added for the first node of the ordering: its arrival
\* is the day start 09:00 (540 minutes); a plan of one node without edges and
\* without estimated stay gets arrival "09:00" and departure "09:30".
C6_FirstArrival ==
  (pc \in {"forEach", "done"} /\ i >= 1) =>
    LET first == timeline[sortedNodes[1].id]
    IN  /\ first.arrivalMin = 540 * Scale
        /\ first.arrival = Text0900
        /\ (Len(nodes) = 1 /\ edges = <<>> /\ nodes[1].estimatedStay = Undefined)
             => first.departure = Text0930

\* the one-node plan of the claim
C6_Witness ==
  /\ pc = "done"
  /\ Len(nodes) = 1 /\ edges = <<>> /\ nodes[1].estimatedStay = Undefined
  /\ timeline[nodes[1].id].arrival = Text0900
  /\ timeline[nodes[1].id].departure = Text0930

Unparsable(str) ==
  /\ str # Undefined /\ str # <<>>
  /\ LeftmostGroup(str, HourMatchAt) = <<>>
  /\ LeftmostGroup(str, MinMatchAt) = <<>>
  /\ ~AllDigits(str, 1, Len(str))

\* C7: a node whose estimated-stay text is absent or unparsable gets the default
\* stay of 30 minutes: departure = arrival + 30.
C7_DefaultStay ==
  \A k \in 1..i :
    LET node == sortedNodes[k]
    IN  (node.estimatedStay = Undefined \/ node.estimatedStay = <<>> \/ Unparsable(node.estimatedStay))
          => timeline[node.id].departureMin = timeline[node.id].arrivalMin + 30 * Scale

\* C8: for consecutive nodes prev, cur of the ordering, arrival(cur) is
\* departure(prev) plus the parsed duration of the (first) edge prev -> cur, or
\* plus 15 minutes when there is no such edge.
C8_TravelTime ==
  \A k \in 1..(i - 1) :
    LET prev    == sortedNodes[k]
        cur     == sortedNodes[k + 1]
        matches == {j \in DOMAIN edges : edges[j].from = prev.id /\ edges[j].to = cur.id}
        first   == CHOOSE j \in matches : \A m \in matches : j <= m
        travel  == IF matches = {} THEN 15 * Scale
                   ELSE parseDurationToMinutes(edges[first].duration)
    IN  /\ timeline[cur.id].arrivalMin = timeline[prev.id].departureMin + travel
        /\ timeline[cur.id].arrival = formatTime(timeline[prev.id].departureMin + travel)

\* a pair joined by two edges, the first of 1 hour 30 minutes, the second with
\* another duration: the travel time is that of the first
C8_Witness ==
  /\ pc = "done"
  /\ Len(sortedNodes) = 2
  /\ Len(edges) = 2
  /\ edges[1].from = sortedNodes[1].id /\ edges[1].to = sortedNodes[2].id
  /\ edges[1].duration = <<"1", "xiao", "shi", "3", "0", "fen">>
  /\ edges[2].from = edges[1].from /\ edges[2].to = edges[1].to
  /\ edges[2].duration # edges[1].duration
  /\ timeline[sortedNodes[2].id].arrivalMin
       = timeline[sortedNodes[1].id].departureMin + 90 * Scale

----------------------------------------------------------------------------
(* Properties of parseDurationToMinutes and formatTime *)

\* value of a text of digits, most significant digit first
RECURSIVE NatOf(_)
NatOf(ds) ==
  IF ds = <<>> THEN 0
  ELSE DigitValue(Head(ds)) * Pow10(Len(ds) - 1) + NatOf(Tail(ds))

\* value of the digits after the decimal point, in fixed point
FractionOf(ds) ==
  LET RECURSIVE Sum(_)
      Sum(k) == IF k > Len(ds) THEN 0
                ELSE DigitValue(ds[k]) * (Scale \div Pow10(k)) + Sum(k + 1)
  IN  Sum(1)

\* first position of the marker that has a digit directly before it (0: none)
MarkerAfterDigit(str, marker) ==
  LET ps == {p \in 2..Len(str) : MarkerAt(str, p, marker) /\ str[p - 1] \in Digits}
  IN  IF ps = {} THEN 0 ELSE CHOOSE p \in ps : \A q \in ps : p <= q

\* first position of the run of digits that ends at position e
RunStart(str, e) ==
  CHOOSE a \in 1..e :
    /\ \A k \in a..e : str[k] \in Digits
    /\ (a = 1 \/ str[a - 1] \notin Digits)

\* the decimal number directly before the hour marker, in fixed point (0: none)
HoursBeforeMarker(str) ==
  LET p == MarkerAfterDigit(str, HourMarker)
      a == RunStart(str, p - 1)
  IN  IF p = 0 THEN 0
      ELSE IF a >= 3 /\ str[a - 1] = "." /\ str[a - 2] \in Digits
           THEN NatOf(SubSeq(str, RunStart(str, a - 2), a - 2)) * Scale
                  + FractionOf(SubSeq(str, a, p - 1))
           ELSE NatOf(SubSeq(str, a, p - 1)) * Scale

\* the integer directly before the minute marker (0: none)
MinutesBeforeMarker(str) ==
  LET p == MarkerAfterDigit(str, MinMarker)
  IN  IF p = 0 THEN 0 ELSE NatOf(SubSeq(str, RunStart(str, p - 1), p - 1))

OnlyDigits(str) == str # <<>> /\ \A k \in DOMAIN str : str[k] \in Digits

ExpectedMinutes(str) ==
  IF str = Undefined THEN 0
  ELSE IF MarkerAfterDigit(str, HourMarker) # 0 \/ MarkerAfterDigit(str, MinMarker) # 0
       THEN 60 * HoursBeforeMarker(str) + MinutesBeforeMarker(str) * Scale
  ELSE IF OnlyDigits(str) THEN NatOf(str) * Scale
  ELSE 0

TwoDigitValue(txt, a) == DigitValue(txt[a]) * 10 + DigitValue(txt[a + 1])

\* C10: formatTime wraps at 24 hours: formatTime(m) = formatTime(m mod 1440);
\* the text is two digits of floor(m/60) mod 24, a colon, two digits of m mod 60.
C10_FormatWraps ==
  pc = "formatted" =>
    /\ ret = formatTime((arg % 1440) * Scale)
    /\ Len(ret) = 5
    /\ ret[3] = ":"
    /\ \A k \in {1, 2, 4, 5} : ret[k] \in Digits
    /\ TwoDigitValue(ret, 1) = (arg \div 60) % 24
    /\ TwoDigitValue(ret, 1) \in 0..23
    /\ TwoDigitValue(ret, 4) = arg % 60

\* a time past midnight: 1505 minutes is rendered 01:05
C10_Witness ==
  /\ pc = "formatted"
  /\ arg = 1505
  /\ ret = <<"0", "1", ":", "0", "5">>

----------------------------------------------------------------------------
(* Properties of routeStats *)

StatsComputed == stats # NotComputed /\ stats # Null

\* the wall-clock minute of the day of a clock value
ClockMinuteOfDay(minutes) == (minutes \div Scale) % (24 * 60)

SignedInt(txt) ==
  IF txt # <<>> /\ txt[1] = "-" THEN 0 - parseInt(Tail(txt)) ELSE parseInt(txt)

\* the hours and the minutes a duration text shows
ShownHours(txt) ==
  SignedInt(SubSeq(txt, 1, FirstIndex(txt, LAMBDA c : c = "xiao") - 1))

MinutesPart(txt) == SubSeq(txt, FirstIndex(txt, LAMBDA c : c = "shi") + 1, Len(txt))

ShownMinutes(txt) ==
  IF MinutesPart(txt) = <<>> THEN 0
  ELSE SignedInt(SubSeq(MinutesPart(txt), 1, Len(MinutesPart(txt)) - 1))

\* C11: the statistics take the first and the last node of the reorderNodes
\* order; start is the arrival of the first, end the departure of the last, and
\* the duration text shows end minus start as whole hours plus minutes, the
\* minutes being shown exactly when they are not zero
C11_RouteStats ==
  StatsComputed =>
    LET firstId  == sortedNodes[1].id
        lastId   == sortedNodes[Len(sortedNodes)].id
        endMinusStart == ClockMinuteOfDay(timeline[lastId].departureMin)
                           - ClockMinuteOfDay(timeline[firstId].arrivalMin)
    IN  /\ stats.start = timeline[firstId].arrival
        /\ stats.end = timeline[lastId].departure
        /\ 60 * ShownHours(stats.duration) + ShownMinutes(stats.duration) = endMinusStart
        /\ (MinutesPart(stats.duration) # <<>>) <=> (endMinusStart % 60 # 0)

\* the same statement for the trips that end on the day they start
C11_SameDay ==
  (StatsComputed /\ \A id \in DOMAIN timeline : timeline[id].departureMin < 24 * 60 * Scale)
    => C11_RouteStats

----------------------------------------------------------------------------
(* SafetyMap: the clustering of the filtered zones (mapItems, lines 144-183) *)
(* and what is drawn for each item (lines 372-416).  A zone is a record      *)
(* [id, x, y, type]; coordinates are whole numbers.                          *)

MaxZones == 3

CLUSTER_THRESHOLD == 8

\* Math.pow(dx, 2) + Math.pow(dy, 2) of lines 155-156
SquaredDistance(a, b) == (a.x - b.x) * (a.x - b.x) + (a.y - b.y) * (a.y - b.y)

\* variant of IsNeighbor: the threshold itself counts as near
IsNeighborInclusive(current, other) ==
  SquaredDistance(current, other) <= CLUSTER_THRESHOLD * CLUSTER_THRESHOLD

\* variant of IsNeighbor: near is less than half the threshold
IsNeighborHalf(current, other) ==
  4 * SquaredDistance(current, other) < CLUSTER_THRESHOLD * CLUSTER_THRESHOLD

\* lines 154-159: Math.sqrt(...) < CLUSTER_THRESHOLD.  For whole-number
\* coordinates the square root is below the threshold exactly when the sum of
\* the squares is below its square.
IsNeighbor(current, other) ==
  SquaredDistance(current, other) < CLUSTER_THRESHOLD * CLUSTER_THRESHOLD

\* variant of Splice: nothing is removed
SpliceNothing(zones, k) == zones

\* line 161: processingZones.splice(i, 1), with k = i + 1
Splice(zones, k) == SubSeq(zones, 1, k - 1) \o SubSeq(zones, k + 1, Len(zones))

\* variant of FindNeighbors: the scan stops at the first zone that is not near
RECURSIVE FindNeighborsUntilFar(_, _, _, _)
FindNeighborsUntilFar(current, zones, k, clusterMembers) ==
  IF k = 0 THEN [clusterMembers |-> clusterMembers, processingZones |-> zones]
  ELSE IF IsNeighbor(current, zones[k])
       THEN FindNeighborsUntilFar(current, Splice(zones, k), k - 1,
                                  Append(clusterMembers, zones[k]))
       ELSE [clusterMembers |-> clusterMembers, processingZones |-> zones]

\* lines 153-163: the for loop from index k - 1 down to 0
RECURSIVE FindNeighbors(_, _, _, _)
FindNeighbors(current, zones, k, clusterMembers) ==
  IF k = 0 THEN [clusterMembers |-> clusterMembers, processingZones |-> zones]
  ELSE IF IsNeighbor(current, zones[k])
       THEN FindNeighbors(current, Splice(zones, k), k - 1, Append(clusterMembers, zones[k]))
       ELSE FindNeighbors(current, zones, k - 1, clusterMembers)

RECURSIVE SumOf(_, _)
SumOf(zones, coordinate) ==
  IF zones = <<>> THEN 0
  ELSE zones[1][coordinate] + SumOf(Tail(zones), coordinate)

\* lines 165-179: the item pushed for the members found (centre in fixed point)
MakeItem(current, clusterMembers) ==
  IF Len(clusterMembers) = 1
  THEN [kind |-> "single", zone |-> clusterMembers[1]]
  ELSE [kind  |-> "cluster",
        zones |-> clusterMembers,
        x     |-> (SumOf(clusterMembers, "x") * Scale) \div Len(clusterMembers),
        y     |-> (SumOf(clusterMembers, "y") * Scale) \div Len(clusterMembers),
        id    |-> <<"cluster", current.id, Len(clusterMembers)>>]

\* line 149: the array after the seed has been taken out of it
RemoveAt(zones, k) == SubSeq(zones, 1, k - 1) \o SubSeq(zones, k + 1, Len(zones))

\* variant of SeedIndex: the seed is taken from the front (shift)
SeedIndexFront(zones) == 1

\* line 149: processingZones.pop() takes the last element
SeedIndex(zones) == Len(zones)

\* variant of hasRed: every member is RED
RECURSIVE hasRedEvery(_)
hasRedEvery(zones) ==
  IF zones = <<>> THEN TRUE
  ELSE zones[1].type = "RED" /\ hasRedEvery(Tail(zones))

\* line 399: item.zones.some(z => z.type === 'RED')
RECURSIVE hasRed(_)
hasRed(zones) ==
  IF zones = <<>> THEN FALSE
  ELSE zones[1].type = "RED" \/ hasRed(Tail(zones))

\* lines 373-414: the button drawn for an item: its colour, label and place
Marker(item) ==
  IF item.kind = "single"
  THEN [kind  |-> "single",
        key   |-> item.zone.id,
        red   |-> item.zone.type = "RED",
        left  |-> item.zone.x * Scale,
        top   |-> item.zone.y * Scale]
  ELSE [kind   |-> "cluster",
        key    |-> item.id,
        hasRed |-> hasRed(item.zones),
        count  |-> Len(item.zones),
        left   |-> item.x,
        top    |-> item.y]

\* the sample coordinates: the example of the spec, a pair at exactly the
\* threshold ((0,0) and (8,0)) and a chain whose ends are not near each other
\* ((0,0), (5,0), (8,0))
Points == {<<0, 0>>, <<1, 1>>, <<5, 0>>, <<8, 0>>, <<20, 20>>}

ZoneTypes == {"RED", "GREEN"}

\* the k-th zone of the list has id k: ids are only copied, into the id of a
\* cluster and into the keys of the buttons
ZoneLists(n) ==
  UNION { { [k \in 1..m |-> [id |-> k, x |-> f[k][1][1], y |-> f[k][1][2], type |-> f[k][2]]]
            : f \in [1..m -> Points \X ZoneTypes] }
          : m \in 0..n }

InitCluster ==
  /\ nodes = <<>> /\ edges = <<>> /\ arg = <<>>
  /\ RouteIdle /\ ZoneIdle /\ AiIdle /\ UiIdle
  /\ filteredZones \in ZoneLists(MaxZones)
  /\ processingZones = <<>> /\ mapItems = <<>> /\ markers = <<>>
  /\ pc = "memo"

\* lines 145-146
StartClustering ==
  /\ pc = "memo"
  /\ mapItems' = <<>>
  /\ processingZones' = filteredZones
  /\ pc' = "while"
  /\ UNCHANGED <<routeVars, uiVars, filteredZones, markers, zoneVars, aiVars>>

\* lines 148-181: one iteration of the while loop
WhileZones ==
  /\ pc = "while"
  /\ Len(processingZones) > 0
  /\ LET current == processingZones[SeedIndex(processingZones)]
         popped  == RemoveAt(processingZones, SeedIndex(processingZones))
         found   == FindNeighbors(current, popped, Len(popped), <<current>>)
     IN  /\ processingZones' = found.processingZones
         /\ mapItems' = Append(mapItems, MakeItem(current, found.clusterMembers))
  /\ UNCHANGED <<routeVars, uiVars, pc, filteredZones, markers, zoneVars, aiVars>>

\* line 182
ReturnItems ==
  /\ pc = "while"
  /\ Len(processingZones) = 0
  /\ pc' = "items"
  /\ UNCHANGED <<routeVars, uiVars, clusterVars, zoneVars, aiVars>>

\* lines 372-416: mapItems.map(...)
RenderItems ==
  /\ pc = "items"
  /\ markers' = [k \in DOMAIN mapItems |-> Marker(mapItems[k])]
  /\ pc' = "rendered"
  /\ UNCHANGED <<routeVars, uiVars, filteredZones, processingZones, mapItems, zoneVars, aiVars>>

NextCluster == StartClustering \/ WhileZones \/ ReturnItems \/ RenderItems

ClusterSpec == InitCluster /\ [][NextCluster]_vars

----------------------------------------------------------------------------
(* Properties of the clustering *)

\* the clustering has started / has returned its items
ClusteringStarted == pc \in {"while", "items", "rendered"}

ClusteringDone == pc \in {"items", "rendered"}

\* the zones of an item
ZonesOf(item) == IF item.kind = "single" THEN <<item.zone>> ELSE item.zones

\* the places where zone z is held: in an item or in the worklist
PlacesOf(z) ==
  {<<k, j>> \in (DOMAIN mapItems) \X (1..MaxZones + 1) :
      j \in DOMAIN ZonesOf(mapItems[k]) /\ ZonesOf(mapItems[k])[j] = z}
  \cup {<<0, j>> : j \in {j \in DOMAIN processingZones : processingZones[j] = z}}

RECURSIVE MemberCount(_)
MemberCount(items) ==
  IF items = <<>> THEN 0
  ELSE Len(ZonesOf(items[1])) + MemberCount(Tail(items))

\* C12: the clustering partitions its input. While it runs, every input zone is
\* in exactly one place (one item or the worklist) and nothing else is; every
\* item of kind cluster has at least 2 members and every single exactly 1; when
\* it returns, the member counts of the items sum to the number of input zones
C12_Partition ==
  ClusteringStarted =>
    /\ \A z \in Range(filteredZones) : Cardinality(PlacesOf(z)) = 1
    /\ \A k \in DOMAIN mapItems : Range(ZonesOf(mapItems[k])) \subseteq Range(filteredZones)
    /\ Range(processingZones) \subseteq Range(filteredZones)
    /\ \A k \in DOMAIN mapItems :
         IF mapItems[k].kind = "cluster" THEN Len(mapItems[k].zones) >= 2
         ELSE mapItems[k].kind = "single"
    /\ ClusteringDone =>
         /\ processingZones = <<>>
         /\ MemberCount(mapItems) = Len(filteredZones)

\* three zones have ended up as one cluster of two and one single
C12_Witness ==
  /\ ClusteringDone
  /\ Len(filteredZones) = 3
  /\ \E k \in DOMAIN mapItems : mapItems[k].kind = "cluster"
  /\ \E k \in DOMAIN mapItems : mapItems[k].kind = "single"

\* the seed of an item: clusterMembers starts as [current]
SeedOf(item) == ZonesOf(item)[1]

\* the zones that were still in the worklist when item k was built, without
\* those that went into item k: the zones of the later items and of the worklist
LeftBy(k) ==
  UNION {Range(ZonesOf(mapItems[n])) : n \in {n \in DOMAIN mapItems : n > k}}
    \cup Range(processingZones)

\* C13: every item is its seed plus exactly the zones of the worklist at
\* Euclidean distance strictly below 8 from the seed: each further member is
\* nearer than 8 (a zone at exactly 8 is not merged), and no zone left behind in
\* the worklist is nearer than 8
C13_SeedPlusNear ==
  ClusteringStarted =>
    \A k \in DOMAIN mapItems :
      /\ \A j \in 2..Len(ZonesOf(mapItems[k])) :
           SquaredDistance(SeedOf(mapItems[k]), ZonesOf(mapItems[k])[j]) < 8 * 8
      /\ \A z \in LeftBy(k) : SquaredDistance(SeedOf(mapItems[k]), z) >= 8 * 8

\* a cluster has been built whose seed left behind a zone at exactly 8
C13_Witness ==
  /\ ClusteringDone
  /\ \E k \in DOMAIN mapItems :
       /\ mapItems[k].kind = "cluster"
       /\ \E z \in LeftBy(k) : SquaredDistance(SeedOf(mapItems[k]), z) = 8 * 8

\* two zones are nearer to each other than the threshold
Near(a, b) == SquaredDistance(a, b) < 8 * 8

\* the input falls into groups: inside a group all distances are below the
\* threshold, between groups all are at or above it
FallsIntoGroups ==
  \A a, b, c \in Range(filteredZones) : Near(a, b) /\ Near(b, c) => Near(a, c)

Groups == {{y \in Range(filteredZones) : Near(z, y)} : z \in Range(filteredZones)}

\* the partition the clustering has produced
OutputPartition == {Range(ZonesOf(mapItems[k])) : k \in DOMAIN mapItems}

PointOf(z) == <<z.x, z.y>>

\* the input is the example of the spec, in some order
ExampleInput ==
  /\ Len(filteredZones) = 3
  /\ {PointOf(z) : z \in Range(filteredZones)} = {<<0, 0>>, <<1, 1>>, <<20, 20>>}

\* C14: when the input falls into groups, the items returned are exactly those
\* groups, whatever the order of the input list; for the points (0,0), (1,1),
\* (20,20) that is one cluster of the first two and the third as a single
C14_GroupsReturned ==
  ClusteringDone =>
    /\ FallsIntoGroups =>
         /\ OutputPartition = Groups
         /\ Len(mapItems) = Cardinality(Groups)
    /\ ExampleInput =>
         /\ Len(mapItems) = 2
         /\ \E k \in DOMAIN mapItems :
              /\ mapItems[k].kind = "cluster"
              /\ {PointOf(z) : z \in Range(mapItems[k].zones)} = {<<0, 0>>, <<1, 1>>}
         /\ \E k \in DOMAIN mapItems :
              /\ mapItems[k].kind = "single"
              /\ PointOf(mapItems[k].zone) = <<20, 20>>

\* the example has been clustered from the order (1,1), (20,20), (0,0): the far
\* point lies between the seed and its neighbour in the list
C14_Witness ==
  /\ ClusteringDone
  /\ ExampleInput
  /\ PointOf(filteredZones[1]) = <<1, 1>>
  /\ PointOf(filteredZones[2]) = <<20, 20>>
  /\ Len(mapItems) = 2

\* C15: the button of a cluster (2 or more members) is drawn as hazardous
\* exactly when at least one of its members has type RED; a cluster of GREEN
\* members only is never drawn as hazardous
C15_HazardousIffRed ==
  pc = "rendered" =>
    /\ Len(markers) = Len(mapItems)
    /\ \A k \in DOMAIN mapItems :
         mapItems[k].kind = "cluster" =>
           /\ markers[k].kind = "cluster"
           /\ markers[k].hasRed <=>
                \E j \in DOMAIN mapItems[k].zones : mapItems[k].zones[j].type = "RED"
           /\ (\A j \in DOMAIN mapItems[k].zones : mapItems[k].zones[j].type = "GREEN")
                => ~markers[k].hasRed

\* a cluster of a GREEN seed and a RED neighbour has been drawn as hazardous
C15_Witness ==
  /\ pc = "rendered"
  /\ \E k \in DOMAIN mapItems :
       /\ mapItems[k].kind = "cluster"
       /\ mapItems[k].zones[1].type = "GREEN"
       /\ mapItems[k].zones[2].type = "RED"
       /\ markers[k].hasRed

\* the three input zones form a chain with the zone at index m in the middle:
\* it is near both others, which are not near each other
ChainWithMiddle(m) ==
  /\ Len(filteredZones) = 3
  /\ m \in 1..3
  /\ \A k \in (1..3) \ {m} : Near(filteredZones[m], filteredZones[k])
  /\ \A k, n \in (1..3) \ {m} : k # n => ~Near(filteredZones[k], filteredZones[n])

\* the partition produced, as sets of points
PointPartition == {{PointOf(z) : z \in part} : part \in OutputPartition}

\* C16: the partition of a chain of three zones depends on the order of the
\* input list. With the middle zone last in the list all three form one cluster;
\* with an end zone last, that zone and the middle one form a cluster and the
\* other end stays single. So two orders of the same zones give different
\* partitions, and the result is not the transitive (single-linkage) grouping,
\* which is one group of three in every order
C16_OrderDependent ==
  ClusteringDone =>
    \A m \in 1..3 :
      ChainWithMiddle(m) =>
        IF m = 3
        THEN PointPartition = {{PointOf(filteredZones[k]) : k \in 1..3}}
        ELSE PointPartition =
               { {PointOf(filteredZones[3]), PointOf(filteredZones[m])},
                 {PointOf(filteredZones[k]) : k \in (1..3) \ {3, m}} }

\* the chain (0,0), (5,0), (8,0) has been clustered in list order and has
\* come out as two items, although each zone is linked to the next
C16_Witness ==
  /\ ClusteringDone
  /\ Len(filteredZones) = 3
  /\ PointOf(filteredZones[1]) = <<0, 0>>
  /\ PointOf(filteredZones[2]) = <<5, 0>>
  /\ PointOf(filteredZones[3]) = <<8, 0>>
  /\ PointPartition = {{<<8, 0>>, <<5, 0>>}, {<<0, 0>>}}

----------------------------------------------------------------------------
(* zoneService: seed zones, submissions in localStorage, moderation.         *)
(* A zone keeps id, city, type and coordinates; name and description are    *)
(* texts that are only copied and are left out.  The item of localStorage   *)
(* is <<>> when the key is absent and <<list>> when it holds a list.         *)

MaxSubmissions == 2
MaxClock == 1

\* lines 4-31
INITIAL_ZONES ==
  << [id |-> "xm1", city |-> "Xiamen",  type |-> "GREEN", coordinates |-> <<30, 55>>],
     [id |-> "xm2", city |-> "Xiamen",  type |-> "RED",   coordinates |-> <<60, 70>>],
     [id |-> "xm3", city |-> "Xiamen",  type |-> "RED",   coordinates |-> <<20, 65>>],
     [id |-> "xm4", city |-> "Xiamen",  type |-> "GREEN", coordinates |-> <<35, 75>>],
     [id |-> "xm5", city |-> "Xiamen",  type |-> "RED",   coordinates |-> <<50, 40>>],
     [id |-> "sy1", city |-> "Sanya",   type |-> "GREEN", coordinates |-> <<45, 50>>],
     [id |-> "sy2", city |-> "Sanya",   type |-> "RED",   coordinates |-> <<70, 30>>],
     [id |-> "lj1", city |-> "Lijiang", type |-> "GREEN", coordinates |-> <<30, 40>>],
     [id |-> "lj2", city |-> "Lijiang", type |-> "RED",   coordinates |-> <<60, 20>>],
     [id |-> "qd1", city |-> "Qingdao", type |-> "RED",   coordinates |-> <<55, 45>>],
     [id |-> "qd2", city |-> "Qingdao", type |-> "GREEN", coordinates |-> <<40, 60>>],
     [id |-> "cs1", city |-> "Changsha", type |-> "RED",   coordinates |-> <<50, 50>>],
     [id |-> "cs2", city |-> "Changsha", type |-> "GREEN", coordinates |-> <<45, 65>>],
     [id |-> "cd1", city |-> "Chengdu", type |-> "RED",   coordinates |-> <<40, 40>>],
     [id |-> "cd2", city |-> "Chengdu", type |-> "GREEN", coordinates |-> <<60, 55>>] >>

\* coordinates?: the optional field is absent
NoCoordinates == <<>>

\* lines 36-43: the list read from localStorage, [] for an absent key
getStoredSubmissions(item) == IF item = <<>> THEN <<>> ELSE item[1]

\* variant of saveSubmissions: only the last submission of the list is written
saveOnlyLast(list) == <<SubSeq(list, Len(list), Len(list))>>

\* lines 45-47
saveSubmissions(list) == <<list>>

\* variant of IsShown: the status is not looked at
IsShownAnyStatus(s) == s.coordinates # NoCoordinates

\* line 54: s.status === 'APPROVED' && s.coordinates
IsShown(s) == s.status = "APPROVED" /\ s.coordinates # NoCoordinates

\* lines 55-63: the zone made of a submission
ToMapZone(s) ==
  [id              |-> s.id,
   city            |-> IF s.city = "" THEN "Xiamen" ELSE s.city,
   type            |-> s.type,
   coordinates     |-> s.coordinates,
   isUserGenerated |-> TRUE]

\* lines 53-63: filter and map
RECURSIVE ApprovedZones(_)
ApprovedZones(list) ==
  IF list = <<>> THEN <<>>
  ELSE (IF IsShown(list[1]) THEN <<ToMapZone(list[1])>> ELSE <<>>)
         \o ApprovedZones(Tail(list))

\* variant of getActiveZones: the approved zones come first
getActiveZonesApprovedFirst(item) ==
  ApprovedZones(getStoredSubmissions(item)) \o INITIAL_ZONES

\* lines 51-66
getActiveZones(item) == INITIAL_ZONES \o ApprovedZones(getStoredSubmissions(item))

\* stable insertion of s into a list sorted by submittedAt, newest first
RECURSIVE InsertNewestFirst(_, _)
InsertNewestFirst(sorted, s) ==
  IF sorted = <<>> THEN <<s>>
  ELSE IF sorted[1].submittedAt >= s.submittedAt
       THEN <<sorted[1]>> \o InsertNewestFirst(Tail(sorted), s)
       ELSE <<s>> \o sorted

RECURSIVE SortNewestFirst(_)
SortNewestFirst(list) ==
  IF list = <<>> THEN <<>>
  ELSE InsertNewestFirst(SortNewestFirst(SubSeq(list, 1, Len(list) - 1)), list[Len(list)])

\* lines 69-71
getPendingSubmissions(item) ==
  SortNewestFirst(SelectSeq(getStoredSubmissions(item), LAMBDA s : s.status = "PENDING"))

\* line 89: findIndex, 0 when there is none
FindIndexOfId(list, id) ==
  IF \E k \in DOMAIN list : list[k].id = id
  THEN CHOOSE k \in DOMAIN list : list[k].id = id /\ \A n \in 1..(k - 1) : list[n].id # id
  ELSE 0

\* the zones a caller hands to submitZone: with coordinates, with an empty
\* city, without coordinates
ZoneInputs ==
  { [city |-> "Sanya", type |-> "RED",   coordinates |-> <<10, 10>>],
    [city |-> "",      type |-> "GREEN", coordinates |-> <<12, 12>>],
    [city |-> "Sanya", type |-> "RED",   coordinates |-> NoCoordinates] }

InitZone ==
  /\ nodes = <<>> /\ edges = <<>> /\ arg = <<>>
  /\ RouteIdle /\ ClusterIdle /\ AiIdle /\ UiIdle
  /\ ZoneIdle
  /\ pc = "zones"

\* time passes
Tick ==
  /\ pc = "zones"
  /\ clock < MaxClock
  /\ clock' = clock + 1
  /\ UNCHANGED <<routeVars, uiVars, pc, clusterVars, submissions, lastCall, returned, aiVars>>

\* lines 74-84; Date.now() is read twice, the second reading is t
SubmitZone ==
  /\ pc = "zones"
  /\ Len(getStoredSubmissions(submissions)) < MaxSubmissions
  /\ \E zone \in ZoneInputs, t \in clock..MaxClock :
       /\ submissions' = saveSubmissions(
            Append(getStoredSubmissions(submissions),
                   [city        |-> zone.city,
                    type        |-> zone.type,
                    coordinates |-> zone.coordinates,
                    id          |-> <<"sub", clock>>,
                    status      |-> "PENDING",
                    submittedAt |-> t]))
       /\ clock' = t
  /\ lastCall' = "submitZone"
  /\ returned' = <<>>
  /\ UNCHANGED <<routeVars, uiVars, pc, clusterVars, aiVars>>

\* the ids a caller can pass: those of the stored submissions and another one
KnownIds == {s.id : s \in Range(getStoredSubmissions(submissions))} \cup {<<"sub", 0 - 1>>}

\* lines 87-94
ModerateSubmission ==
  /\ pc = "zones"
  /\ \E id \in KnownIds, action \in {"APPROVE", "REJECT"} :
       LET list  == getStoredSubmissions(submissions)
           index == FindIndexOfId(list, id)
       IN  IF index # 0
           THEN submissions' = saveSubmissions(
                  [list EXCEPT ![index].status =
                                 IF action = "APPROVE" THEN "APPROVED" ELSE "REJECTED"])
           ELSE UNCHANGED submissions
  /\ lastCall' = "moderateSubmission"
  /\ returned' = <<>>
  /\ UNCHANGED <<routeVars, uiVars, pc, clusterVars, clock, aiVars>>

\* lines 97-99
ResetData ==
  /\ pc = "zones"
  /\ submissions' = <<>>
  /\ lastCall' = "resetData"
  /\ returned' = <<>>
  /\ UNCHANGED <<routeVars, uiVars, pc, clusterVars, clock, aiVars>>

\* lines 51-66, the value goes to the caller
GetActiveZones ==
  /\ pc = "zones"
  /\ returned' = getActiveZones(submissions)
  /\ lastCall' = "getActiveZones"
  /\ UNCHANGED <<routeVars, uiVars, pc, clusterVars, submissions, clock, aiVars>>

\* lines 69-71, the value goes to the caller
GetPendingSubmissions ==
  /\ pc = "zones"
  /\ returned' = getPendingSubmissions(submissions)
  /\ lastCall' = "getPendingSubmissions"
  /\ UNCHANGED <<routeVars, uiVars, pc, clusterVars, submissions, clock, aiVars>>

NextZone ==
  \/ Tick \/ SubmitZone \/ ModerateSubmission \/ ResetData
  \/ GetActiveZones \/ GetPendingSubmissions

ZoneSpec == InitZone /\ [][NextZone]_vars

----------------------------------------------------------------------------
(* Properties of zoneService *)

Stored == getStoredSubmissions(submissions)

\* the zones of the last getActiveZones result that follow the seed zones
CommunityZones == SubSeq(returned, Len(INITIAL_ZONES) + 1, Len(returned))

\* the positions of the stored submissions that are APPROVED and have
\* coordinates, in stored order
RECURSIVE ApprovedPositions(_)
ApprovedPositions(k) ==
  IF k = 0 THEN <<>>
  ELSE ApprovedPositions(k - 1)
         \o (IF Stored[k].status = "APPROVED" /\ Stored[k].coordinates # NoCoordinates
             THEN <<k>> ELSE <<>>)

\* C17: whatever submitZone, moderateSubmission and resetData calls came before,
\* the community zones that getActiveZones returns are exactly the stored
\* submissions that are APPROVED and carry coordinates, one zone for each, in
\* stored order; none comes from a PENDING or REJECTED submission
C17_OnlyApprovedVisible ==
  lastCall = "getActiveZones" =>
    LET approved == ApprovedPositions(Len(Stored))
    IN  /\ Len(CommunityZones) = Len(approved)
        /\ \A j \in DOMAIN approved :
             /\ CommunityZones[j].id = Stored[approved[j]].id
             /\ CommunityZones[j].type = Stored[approved[j]].type
             /\ CommunityZones[j].coordinates = Stored[approved[j]].coordinates
             /\ CommunityZones[j].isUserGenerated
        /\ \A k \in DOMAIN Stored :
             Stored[k].status \in {"PENDING", "REJECTED"}
               => \A j \in DOMAIN approved : approved[j] # k

\* getActiveZones has returned one community zone while a PENDING and an
\* APPROVED submission with coordinates are stored
C17_Witness ==
  /\ lastCall = "getActiveZones"
  /\ Len(Stored) = 2
  /\ Stored[1].status = "PENDING" /\ Stored[1].coordinates # NoCoordinates
  /\ Stored[2].status = "APPROVED" /\ Stored[2].coordinates # NoCoordinates
  /\ Len(CommunityZones) = 1

\* C18: APPROVED and REJECTED are end states: no zoneService operation changes
\* the status of a stored submission that is APPROVED or REJECTED
C18_TerminalStatus ==
  [][\A k \in DOMAIN Stored :
       (Stored[k].status \in {"APPROVED", "REJECTED"}
          /\ k \in DOMAIN getStoredSubmissions(submissions'))
         => getStoredSubmissions(submissions')[k].status = Stored[k].status]_vars

\* the ids of the seed zones, in the order of the source
SeedIds ==
  <<"xm1", "xm2", "xm3", "xm4", "xm5", "sy1", "sy2", "lj1", "lj2",
    "qd1", "qd2", "cs1", "cs2", "cd1", "cd2">>

\* C19: after any submitZone, moderateSubmission and resetData calls, the
\* result of getActiveZones starts with all seed zones, unchanged and in their
\* original order
C19_SeedPrefix ==
  lastCall = "getActiveZones" =>
    /\ Len(returned) >= Len(SeedIds)
    /\ \A k \in DOMAIN SeedIds :
         /\ returned[k].id = SeedIds[k]
         /\ returned[k] = INITIAL_ZONES[k]
         /\ DOMAIN returned[k] = {"id", "city", "type", "coordinates"}

\* getActiveZones has returned the seed zones followed by two community zones
C19_Witness ==
  /\ lastCall = "getActiveZones"
  /\ Len(returned) = Len(SeedIds) + 2

----------------------------------------------------------------------------
(* geminiService: one call of a service function, from getAiClient to the   *)
(* settling of its promise.  Error messages are sequences of characters.    *)
(* What the model API does with a request is an input of the call: it       *)
(* answers with usable, malformed or empty content, or it throws.           *)

\* line 8: the message of the error getAiClient throws
KeyMissingMessage ==
  <<"A", "P", "I", "_", "K", "E", "Y", "_", "M", "I", "S", "S", "I", "N", "G">>

\* the service rejects the key that was sent
KeyRejectedMessage ==
  <<"A", "P", "I", " ", "k", "e", "y", " ", "n", "o", "t", " ", "v", "a", "l", "i", "d">>

\* the request could not be sent
FetchFailedMessage ==
  <<"f", "e", "t", "c", "h", " ", "f", "a", "i", "l", "e", "d">>

\* the request could not be sent, as another runtime words it
NetworkErrorMessage ==
  <<"N", "e", "t", "w", "o", "r", "k", "E", "r", "r", "o", "r", " ", "o", "n", " ", "f", "e", "t", "c", "h">>

\* lines 134, 180 and 223: the response has no text
NoTextMessage ==
  <<"N", "o", " ", "r", "e", "s", "p", "o", "n", "s", "e", " ", "t", "e", "x", "t">>

\* JSON.parse rejects the text
SyntaxErrorMessage ==
  <<"U", "n", "e", "x", "p", "e", "c", "t", "e", "d", " ", "t", "o", "k", "e", "n">>

\* the service refuses the request
QuotaMessage ==
  <<"Q", "u", "o", "t", "a", " ", "e", "x", "c", "e", "e", "d", "e", "d">>

ApiKeyPhrase == <<"A", "P", "I", " ", "k", "e", "y">>

FetchFailedPhrase == <<"f", "e", "t", "c", "h", " ", "f", "a", "i", "l", "e", "d">>

NetworkPhrase == <<"N", "e", "t", "w", "o", "r", "k">>

\* String.prototype.includes
includes(str, pat) ==
  \E k \in 1..(Len(str) - Len(pat) + 1) : SubSeq(str, k, k + Len(pat) - 1) = pat

\* the functions that end in handleApiError
MockedFunctions ==
  {"generateRoutePlan", "analyzeItinerary", "analyzeMenuImage", "searchDestinations"}

ServiceFunctions == MockedFunctions \cup {"editImageWithGemini"}

\* lines 15-54: MOCK_ROUTE_PLAN, MOCK_RISK_ANALYSIS, MOCK_MENU_ANALYSIS and
\* MOCK_DESTINATION_RESULT
MockOf(function) == <<"MOCK", function>>

\* the value a function returns from a response
ResultOf(function) == <<"result", function>>

Error(cause, message) == [cause |-> cause, message |-> message]

Resolved(value) == [state |-> "resolved", value |-> value]

Rejected(error) == [state |-> "rejected", error |-> error]

\* variant of handleApiError: every failure falls back to the mock data
handleApiErrorAlwaysMock(error, mockData) == Resolved(mockData)

\* lines 57-68; the optional chaining on a value without message gives undefined
handleApiError(error, mockData) ==
  LET hasMessage == error.message # Undefined
      isKeyError == \/ error.message = KeyMissingMessage
                    \/ hasMessage /\ includes(error.message, ApiKeyPhrase)
      isNetError == \/ hasMessage /\ includes(error.message, FetchFailedPhrase)
                    \/ hasMessage /\ includes(error.message, NetworkPhrase)
  IN  IF isKeyError \/ isNetError THEN Resolved(mockData) ELSE Rejected(error)

\* lines 262-269: the catch of editImageWithGemini
editImageCatch(error) ==
  LET isKeyError == \/ error.message = KeyMissingMessage
                    \/ error.message # Undefined /\ includes(error.message, ApiKeyPhrase)
  IN  IF isKeyError THEN Rejected(Error("key not configured", <<"A", "P", "I", " ", "K", "e", "y">>))
      ELSE Rejected(error)

\* what ai.models.generateContent does: a response or a thrown error
ApiBehaviours ==
  { [kind |-> "responds", content |-> c, cause |-> "none", message |-> <<>>]
      : c \in {"usable", "malformed", "empty"} }
  \cup
  { [kind |-> "throws", content |-> "none", cause |-> e[1], message |-> e[2]]
      : e \in { <<"key rejected", KeyRejectedMessage>>,
                <<"network", FetchFailedMessage>>,
                <<"network", NetworkErrorMessage>>,
                <<"service", QuotaMessage>>,
                <<"service", Undefined>> } }

\* the content of a response that the function turns into an error inside try:
\* lines 131-134, 177-180, 220-223 (no text, or text JSON.parse rejects) and
\* lines 252-261 (no image part); searchDestinations takes any response
RefusedContent(function, content) ==
  IF function = "searchDestinations" THEN FALSE
  ELSE IF function = "editImageWithGemini" THEN content = "empty"
  ELSE content \in {"empty", "malformed"}

InitAi ==
  /\ nodes = <<>> /\ edges = <<>> /\ arg = <<>>
  /\ RouteIdle /\ ClusterIdle /\ ZoneIdle /\ UiIdle
  /\ apiKey \in {"", "key"}
  /\ call \in [function : ServiceFunctions, api : ApiBehaviours]
  /\ thrown = NoError
  /\ outcome = Unsettled
  /\ pc = "call"

\* lines 5-11, called first in every try block
GetAiClient ==
  /\ pc = "call"
  /\ IF apiKey = ""
     THEN thrown' = Error("key missing", KeyMissingMessage) /\ pc' = "catch"
     ELSE thrown' = thrown /\ pc' = "request"
  /\ UNCHANGED <<routeVars, uiVars, clusterVars, zoneVars, apiKey, call, outcome>>

\* await ai.models.generateContent(...) throws
GenerateContentThrows ==
  /\ pc = "request"
  /\ call.api.kind = "throws"
  /\ thrown' = Error(call.api.cause, call.api.message)
  /\ pc' = "catch"
  /\ UNCHANGED <<routeVars, uiVars, clusterVars, zoneVars, apiKey, call, outcome>>

\* the response is turned into an error: throw new Error(...) or JSON.parse
ResponseRefused ==
  /\ pc = "request"
  /\ call.api.kind = "responds"
  /\ RefusedContent(call.function, call.api.content)
  /\ thrown' = IF call.api.content = "malformed"
               THEN Error("invalid JSON", SyntaxErrorMessage)
               ELSE Error("no content", NoTextMessage)
  /\ pc' = "catch"
  /\ UNCHANGED <<routeVars, uiVars, clusterVars, zoneVars, apiKey, call, outcome>>

\* the function returns the value made of the response
ResponseReturned ==
  /\ pc = "request"
  /\ call.api.kind = "responds"
  /\ ~RefusedContent(call.function, call.api.content)
  /\ outcome' = Resolved(ResultOf(call.function))
  /\ pc' = "settled"
  /\ UNCHANGED <<routeVars, uiVars, clusterVars, zoneVars, apiKey, call, thrown>>

\* the catch block: handleApiError with the mock of the function (lines 135-137,
\* 181-183, 224-226, 298-300), or the catch of editImageWithGemini
CatchError ==
  /\ pc = "catch"
  /\ outcome' = IF call.function = "editImageWithGemini" THEN editImageCatch(thrown)
                ELSE handleApiError(thrown, MockOf(call.function))
  /\ pc' = "settled"
  /\ UNCHANGED <<routeVars, uiVars, clusterVars, zoneVars, apiKey, call, thrown>>

NextAi ==
  \/ GetAiClient \/ GenerateContentThrows \/ ResponseRefused \/ ResponseReturned
  \/ CatchError

AiSpec == InitAi /\ [][NextAi]_vars

----------------------------------------------------------------------------
(* Properties of geminiService *)

\* a call of one of the four functions with a mock has settled
MockedCallSettled == pc = "settled" /\ call.function \in MockedFunctions

Failed == thrown # NoError

RECURSIVE Contains(_, _)
Contains(str, pat) ==
  IF Len(str) < Len(pat) THEN FALSE
  ELSE SubSeq(str, 1, Len(pat)) = pat \/ Contains(Tail(str), pat)

\* the message of the error names the key or a network failure
NamesKeyOrNetwork(message) ==
  /\ message # Undefined
  /\ \/ message = KeyMissingMessage
     \/ Contains(message, ApiKeyPhrase)
     \/ Contains(message, FetchFailedPhrase)
     \/ Contains(message, NetworkPhrase)

----------------------------------------------------------------------------
(* Restart policy of reorderNodes *)

\* the positions in the input of the nodes not yet emitted
NotEmitted == {k \in DOMAIN nodes : \A n \in DOMAIN sortedNodes : sortedNodes[n] # nodes[k]}

\* the loop is at its head with an empty queue and a node still to emit
QueueEmptyBeforeEnd ==
  /\ pc = "loop"
  /\ queue = <<>>
  /\ Len(sortedNodes) < Len(nodes)
  /\ NotEmitted # {}

\* C22: whenever the queue is empty while some node has not been emitted, the
\* next node emitted is the first node of the input order that has not been
\* emitted, and it is emitted by the next iteration
C22_RestartFirstNotEmitted ==
  [][QueueEmptyBeforeEnd =>
       sortedNodes' = Append(sortedNodes,
                             nodes[CHOOSE k \in NotEmitted : \A n \in NotEmitted : k <= n])]_vars

\* node 1 was emitted from the roots, then the queue ran empty with nodes 2 and
\* 3 left (they are on a cycle) and the restart took node 2
C22_Witness ==
  /\ LoopLeft
  /\ Len(nodes) = 3
  /\ restarted = <<2>>
  /\ Len(sortedNodes) = 3
  /\ sortedNodes[1].id = 1 /\ sortedNodes[2].id = 2

----------------------------------------------------------------------------
(* Frame of submitZone *)

StoredAfter == getStoredSubmissions(submissions')

\* C23: a submitZone call adds exactly one submission, as the last stored one
\* and with status PENDING; getPendingSubmissions then returns it, getActiveZones
\* returns what it returned before the call, and every submission stored before
\* is still stored, at its place and with all its fields unchanged
C23_SubmitAddsOnePending ==
  [][SubmitZone =>
       /\ Len(StoredAfter) = Len(Stored) + 1
       /\ SubSeq(StoredAfter, 1, Len(Stored)) = Stored
       /\ StoredAfter[Len(StoredAfter)].status = "PENDING"
       /\ \E k \in DOMAIN getPendingSubmissions(submissions') :
            getPendingSubmissions(submissions')[k] = StoredAfter[Len(StoredAfter)]
       /\ Len(getPendingSubmissions(submissions')) = Len(getPendingSubmissions(submissions)) + 1
       /\ getActiveZones(submissions') = getActiveZones(submissions)]_vars

\* a zone with coordinates has been submitted while an APPROVED submission with
\* coordinates was stored
C23_Witness ==
  /\ lastCall = "submitZone"
  /\ Len(Stored) = 2
  /\ Stored[1].status = "APPROVED" /\ Stored[1].coordinates # NoCoordinates
  /\ Stored[2].status = "PENDING" /\ Stored[2].coordinates # NoCoordinates

----------------------------------------------------------------------------
(* NationalGuide (geminiService.ts lines 489-636): the province that is      *)
(* selected, the result that is shown and the loading flag.  A call of       *)
(* searchDestinations that has not settled is a record of requests; a result *)
(* carries the location its request asked for.                               *)

MaxClicks == 3

\* three of the PROVINCES of lines 470-487 (the names are transliterated)
Provinces ==
  { [id |-> "xinjiang", name |-> "Xinjiang"],
    [id |-> "tibet",    name |-> "Xizang"],
    [id |-> "fujian",   name |-> "Fujian"] }

\* what searchDestinations(location) resolves with: the answer of the model
\* (lines 293-296) or MOCK_DESTINATION_RESULT (line 298)
DestinationResults(location) ==
  { [data |-> d, location |-> location]
      : d \in {ResultOf("searchDestinations"), MockOf("searchDestinations")} }

\* lines 502-506: the text that names the province of the failed call
SorryResult(province) == [data |-> <<"sorry", province.name>>, location |-> province.name]

\* the calls of searchDestinations that have not settled
GuideRequests == {r \in requests : r.component = "NationalGuide"}

InitGuide ==
  /\ nodes = <<>> /\ edges = <<>> /\ arg = <<>>
  /\ RouteIdle /\ ClusterIdle /\ ZoneIdle /\ AiIdle
  /\ UiIdle
  /\ pc = "guide"

\* lines 494-500 up to the await; every province can be clicked at any time
\* (lines 536-541)
handleProvinceClick ==
  /\ pc = "guide"
  /\ events < MaxClicks
  /\ \E province \in Provinces :
       /\ guide' = [selectedProvince |-> province, result |-> Null, loading |-> TRUE]
       /\ requests' = requests \cup
            {[component |-> "NationalGuide", id |-> events + 1, province |-> province]}
  /\ events' = events + 1
  /\ UNCHANGED <<routeVars, pc, clusterVars, zoneVars, aiVars, scanner, photo>>

\* lines 500-501 and 507-509: the call settles with data
SearchResolves ==
  /\ pc = "guide"
  /\ \E r \in GuideRequests : \E data \in DestinationResults(r.province.name) :
       /\ guide' = [guide EXCEPT !.result = data, !.loading = FALSE]
       /\ requests' = requests \ {r}
  /\ UNCHANGED <<routeVars, pc, clusterVars, zoneVars, aiVars, scanner, photo, events>>

\* lines 502-509: the call rejects
SearchRejects ==
  /\ pc = "guide"
  /\ \E r \in GuideRequests :
       /\ guide' = [guide EXCEPT !.result = SorryResult(r.province), !.loading = FALSE]
       /\ requests' = requests \ {r}
  /\ UNCHANGED <<routeVars, pc, clusterVars, zoneVars, aiVars, scanner, photo, events>>

NextGuide == handleProvinceClick \/ SearchResolves \/ SearchRejects

GuideSpec == InitGuide /\ [][NextGuide]_vars

----------------------------------------------------------------------------
(* Properties of NationalGuide *)

\* lines 586-596: a result is on the screen
ResultDisplayed == guide.result # Null /\ ~guide.loading

\* C24: a result that is displayed belongs to the province that is selected:
\* the response for a province clicked earlier never takes the place of the
\* result of the province selected last.
C24_ResultOfSelected ==
  ResultDisplayed => guide.result.location = guide.selectedProvince.name

\* the calls for the selected province that have not settled
SelectedInFlight ==
  {r \in GuideRequests : r.province = guide.selectedProvince}

\* C25: loading is true while a call for the selected province has not settled,
\* and it is false only when no call is outstanding.
C25_LoadingWhileInFlight ==
  /\ SelectedInFlight # {} => guide.loading
  /\ ~guide.loading => GuideRequests = {}

----------------------------------------------------------------------------
(* MenuScanner (geminiService.ts lines 642-785) and PhotoMagic (lines        *)
(* 306-456): an image is chosen, read by a FileReader and sent to the        *)
(* service; the answer is kept next to the image.  A read or a service call  *)
(* that has not settled is a record of requests; an answer carries the image *)
(* of its request.                                                           *)

MaxEvents == 4

\* the files the user can choose
Files == {"menu.jpg", "beach.jpg"}

\* reader.result of readAsDataURL: a header, a comma and the base64 data
DataUrl(file) == <<"data:image/jpeg;base64", <<"base64", file>>>>

\* lines 665 and 340: url.split(',')[1]
Base64Data(url) == url[2]

\* String.prototype.trim
RECURSIVE trim(_)
trim(s) ==
  IF s = <<>> THEN <<>>
  ELSE IF s[1] = " " THEN trim(Tail(s))
  ELSE IF s[Len(s)] = " " THEN trim(SubSeq(s, 1, Len(s) - 1))
  ELSE s

\* what the user types into the prompt field
Prompts == { <<" ">>, <<"s", "k", "y">> }

\* the reads and calls of MenuScanner that have not settled
ScannerReads == {r \in requests : r.component = "MenuScanner" /\ r.call = "readAsDataURL"}

ScannerCalls == {r \in requests : r.component = "MenuScanner" /\ r.call = "analyzeMenuImage"}

\* those of PhotoMagic
PhotoReads == {r \in requests : r.component = "PhotoMagic" /\ r.call = "readAsDataURL"}

PhotoCalls == {r \in requests : r.component = "PhotoMagic" /\ r.call = "editImageWithGemini"}

\* the value analyzeMenuImage resolves with (lines 189-227), for the image sent
MenuAnalyses(base64Image) ==
  { [data |-> d, image |-> base64Image]
      : d \in {ResultOf("analyzeMenuImage"), MockOf("analyzeMenuImage")} }

\* the value editImageWithGemini resolves with (line 256), for the image sent
GeneratedImage(base64Image) ==
  [data |-> ResultOf("editImageWithGemini"), image |-> base64Image]

InitImage ==
  /\ nodes = <<>> /\ edges = <<>> /\ arg = <<>>
  /\ RouteIdle /\ ClusterIdle /\ ZoneIdle /\ AiIdle
  /\ UiIdle
  /\ pc = "image"

\* MenuScanner, lines 648-659 up to readAsDataURL; the button that opens the
\* file dialog is drawn while there is no preview (lines 688-699)
ScannerFileChange ==
  /\ pc = "image"
  /\ events < MaxEvents
  /\ scanner.imagePreview = Null
  /\ \E file \in Files :
       requests' = requests \cup
         {[component |-> "MenuScanner", call |-> "readAsDataURL", id |-> events + 1,
           input |-> file]}
  /\ events' = events + 1
  /\ UNCHANGED <<routeVars, pc, clusterVars, zoneVars, aiVars, guide, scanner, photo>>

\* lines 652-656: reader.onloadend
ScannerFileLoaded ==
  /\ pc = "image"
  /\ \E r \in ScannerReads :
       /\ scanner' = [scanner EXCEPT !.imagePreview = DataUrl(r.input), !.analysis = Null]
       /\ requests' = requests \ {r}
  /\ UNCHANGED <<routeVars, pc, clusterVars, zoneVars, aiVars, guide, photo, events>>

\* lines 661-668 up to the await; the button is disabled without a preview and
\* while loading (lines 768-770)
handleScan ==
  /\ pc = "image"
  /\ events < MaxEvents
  /\ scanner.imagePreview # Null /\ ~scanner.loading
  /\ scanner' = [scanner EXCEPT !.loading = TRUE]
  /\ requests' = requests \cup
       {[component |-> "MenuScanner", call |-> "analyzeMenuImage", id |-> events + 1,
         input |-> Base64Data(scanner.imagePreview)]}
  /\ events' = events + 1
  /\ UNCHANGED <<routeVars, pc, clusterVars, zoneVars, aiVars, guide, photo>>

\* lines 668-669 and 673-675: the call settles with an analysis
ScanResolves ==
  /\ pc = "image"
  /\ \E r \in ScannerCalls : \E result \in MenuAnalyses(r.input) :
       /\ scanner' = [scanner EXCEPT !.analysis = result, !.loading = FALSE]
       /\ requests' = requests \ {r}
  /\ UNCHANGED <<routeVars, pc, clusterVars, zoneVars, aiVars, guide, photo, events>>

\* lines 670-675: the call rejects, an alert is shown
ScanRejects ==
  /\ pc = "image"
  /\ \E r \in ScannerCalls :
       /\ scanner' = [scanner EXCEPT !.loading = FALSE]
       /\ requests' = requests \ {r}
  /\ UNCHANGED <<routeVars, pc, clusterVars, zoneVars, aiVars, guide, photo, events>>

\* lines 704-706: the button on the preview
ScannerClear ==
  /\ pc = "image"
  /\ events < MaxEvents
  /\ scanner.imagePreview # Null
  /\ scanner' = [scanner EXCEPT !.imagePreview = Null, !.analysis = Null]
  /\ events' = events + 1
  /\ UNCHANGED <<routeVars, pc, clusterVars, zoneVars, aiVars, guide, photo, requests>>

\* PhotoMagic, lines 317-331 up to readAsDataURL; the upload button is drawn
\* while there is no original (lines 374-386)
PhotoFileChange ==
  /\ pc = "image"
  /\ events < MaxEvents
  /\ photo.originalUrl = Null
  /\ \E file \in Files :
       requests' = requests \cup
         {[component |-> "PhotoMagic", call |-> "readAsDataURL", id |-> events + 1,
           input |-> file]}
  /\ events' = events + 1
  /\ UNCHANGED <<routeVars, pc, clusterVars, zoneVars, aiVars, guide, scanner, photo>>

\* lines 321-328: reader.onloadend
PhotoFileLoaded ==
  /\ pc = "image"
  /\ \E r \in PhotoReads :
       /\ photo' = [photo EXCEPT !.originalUrl = DataUrl(r.input),
                                 !.generatedUrl = Null, !.error = Null]
       /\ requests' = requests \ {r}
  /\ UNCHANGED <<routeVars, pc, clusterVars, zoneVars, aiVars, guide, scanner, events>>

\* line 404: the prompt field
PromptChange ==
  /\ pc = "image"
  /\ events < MaxEvents
  /\ \E value \in Prompts : photo' = [photo EXCEPT !.prompt = value]
  /\ events' = events + 1
  /\ UNCHANGED <<routeVars, pc, clusterVars, zoneVars, aiVars, guide, scanner, requests>>

\* lines 333-341 up to the await; the button is disabled while processing,
\* without an original and with an empty prompt (lines 409-411)
handleGenerate ==
  /\ pc = "image"
  /\ events < MaxEvents
  /\ ~photo.isProcessing /\ photo.originalUrl # Null /\ photo.prompt # <<>>
  /\ IF photo.originalUrl = Null \/ trim(photo.prompt) = <<>>
     THEN UNCHANGED <<photo, requests>>
     ELSE /\ photo' = [photo EXCEPT !.isProcessing = TRUE, !.error = Null]
          /\ requests' = requests \cup
               {[component |-> "PhotoMagic", call |-> "editImageWithGemini",
                 id |-> events + 1, input |-> Base64Data(photo.originalUrl)]}
  /\ events' = events + 1
  /\ UNCHANGED <<routeVars, pc, clusterVars, zoneVars, aiVars, guide, scanner>>

\* lines 341-347: the call settles with an image
GenerateResolves ==
  /\ pc = "image"
  /\ \E r \in PhotoCalls :
       /\ photo' = [photo EXCEPT !.generatedUrl = GeneratedImage(r.input),
                                 !.isProcessing = FALSE]
       /\ requests' = requests \ {r}
  /\ UNCHANGED <<routeVars, pc, clusterVars, zoneVars, aiVars, guide, scanner, events>>

\* lines 348-354: the call rejects
GenerateRejects ==
  /\ pc = "image"
  /\ \E r \in PhotoCalls :
       /\ photo' = [photo EXCEPT !.isProcessing = FALSE, !.error = "failed"]
       /\ requests' = requests \ {r}
  /\ UNCHANGED <<routeVars, pc, clusterVars, zoneVars, aiVars, guide, scanner, events>>

\* lines 388-391: the button on the original
PhotoClear ==
  /\ pc = "image"
  /\ events < MaxEvents
  /\ photo.originalUrl # Null
  /\ photo' = [photo EXCEPT !.originalUrl = Null, !.generatedUrl = Null]
  /\ events' = events + 1
  /\ UNCHANGED <<routeVars, pc, clusterVars, zoneVars, aiVars, guide, scanner, requests>>

NextImage ==
  \/ ScannerFileChange \/ ScannerFileLoaded \/ handleScan
  \/ ScanResolves \/ ScanRejects \/ ScannerClear
  \/ PhotoFileChange \/ PhotoFileLoaded \/ PromptChange \/ handleGenerate
  \/ GenerateResolves \/ GenerateRejects \/ PhotoClear

ImageSpec == InitImage /\ [][NextImage]_vars

----------------------------------------------------------------------------
(* Properties of MenuScanner and PhotoMagic *)

\* C26: an answer is held only together with the image it was computed from:
\* when analysis (generatedUrl) is not null, the preview (the original) is not
\* null and is the image that was sent.
C26_ResultWithItsImage ==
  /\ scanner.analysis # Null =>
       /\ scanner.imagePreview # Null
       /\ Base64Data(scanner.imagePreview) = scanner.analysis.image
  /\ photo.generatedUrl # Null =>
       /\ photo.originalUrl # Null
       /\ Base64Data(photo.originalUrl) = photo.generatedUrl.image

----------------------------------------------------------------------------
(* The duration of the trip *)

\* the minutes that pass between the arrival at the first node and the
\* departure from the last node, on the running clock of nodeTimeline
ElapsedMinutes ==
  (timeline[sortedNodes[Len(sortedNodes)].id].departureMin
     - timeline[sortedNodes[1].id].arrivalMin) \div Scale

\* C27: the duration shown by the statistics is not negative and equals the
\* minutes that really pass between the first arrival and the last departure,
\* also when the running clock passes midnight
C27_ElapsedDuration ==
  StatsComputed =>
    /\ ShownHours(stats.duration) >= 0
    /\ ShownMinutes(stats.duration) >= 0
    /\ 60 * ShownHours(stats.duration) + ShownMinutes(stats.duration) = ElapsedMinutes

\* the same statement for the trips that end on the day they start
C27_SameDay ==
  (StatsComputed /\ \A id \in DOMAIN timeline : timeline[id].departureMin < 24 * 60 * Scale)
    => C27_ElapsedDuration

----------------------------------------------------------------------------
(* SmartRoute: the graph and the timeline list of the side panel *)

\* part_004 lines 306-317: the nodes of the graph, in the reorderNodes order
\* (the position on the canvas is left out)
computedNodes(orderedNodes) ==
  [k \in DOMAIN orderedNodes |->
     [id      |-> orderedNodes[k].id,
      isStart |-> k = 1,
      isEnd   |-> k = Len(orderedNodes)]]

\* part_004 lines 627-649: routePlan.nodes.map((node, index) => ...), the rows
\* of the list with the number in the dot and the times of the node
TimelineList(ns, tl) ==
  [k \in DOMAIN ns |->
     [key      |-> ns[k].id,
      number   |-> k,
      isLast   |-> k = Len(ns),
      timeInfo |-> IF ns[k].id \in DOMAIN tl THEN tl[ns[k].id] ELSE Undefined]]

\* C28: the list of the side panel shows the stops in the order and with the
\* numbers of the graph (the reorderNodes order), so the arrival times on the
\* running clock never decrease down the list
C28_ListInGraphOrder ==
  pc = "done" =>
    LET list  == TimelineList(nodes, timeline)
        graph == computedNodes(reorderNodes(nodes, edges))
    IN  /\ Len(list) = Len(graph)
        /\ \A k \in DOMAIN list : list[k].key = graph[k].id /\ list[k].number = k
        /\ \A k \in 1..(Len(list) - 1) :
             list[k].timeInfo.arrivalMin <= list[k + 1].timeInfo.arrivalMin

----------------------------------------------------------------------------
(* The seeds of the clustering *)

\* C29: when the clustering has returned, the seeds (first members) of two
\* different items are at a distance of at least the threshold, and every
\* member of an item is at a distance below the threshold from its seed
C29_SeedsApart ==
  ClusteringDone =>
    /\ \A k, n \in DOMAIN mapItems :
         k # n => SquaredDistance(SeedOf(mapItems[k]), SeedOf(mapItems[n]))
                    >= CLUSTER_THRESHOLD * CLUSTER_THRESHOLD
    /\ \A k \in DOMAIN mapItems : \A z \in Range(ZonesOf(mapItems[k])) :
         SquaredDistance(SeedOf(mapItems[k]), z) < CLUSTER_THRESHOLD * CLUSTER_THRESHOLD

\* two seeds are at exactly the threshold and one of them has a member at
\* another point
C29_Witness ==
  /\ ClusteringDone
  /\ \E k, n \in DOMAIN mapItems :
       /\ k # n
       /\ SquaredDistance(SeedOf(mapItems[k]), SeedOf(mapItems[n]))
            = CLUSTER_THRESHOLD * CLUSTER_THRESHOLD
       /\ \E z \in Range(ZonesOf(mapItems[k])) : SquaredDistance(SeedOf(mapItems[k]), z) > 0

----------------------------------------------------------------------------
(* The ids of the submissions *)

\* the ids of the seed zones, written like the ids of the submissions (a
\* sequence of the parts of the text)
SeedIdTexts == {<<INITIAL_ZONES[k].id>> : k \in DOMAIN INITIAL_ZONES}

\* C30: no two stored submissions share an id and none has the id of a seed
\* zone, so moderateSubmission finds exactly the submission that was selected
C30_UniqueIds ==
  /\ \A k, n \in DOMAIN Stored : k # n => Stored[k].id # Stored[n].id
  /\ \A k \in DOMAIN Stored : Stored[k].id \notin SeedIdTexts

====
